---- MODULE Spec2Model ----
(***************************************************************************)
(* Model of the heuristic scoring engine of peerreview-ai                  *)
(* (src/app/scoring.py) and of the /analyze handler (src/app/main.py).     *)
(*                                                                         *)
(* Texts are TLA+ strings, i.e. sequences of characters; Len, SubSeq and   *)
(* \o act on them as Python's len, slicing and + do.  Numbers that Python  *)
(* holds as floats are held exactly: a score is an integer number of       *)
(* hundredths (1.0 is 100, 10.0 is 1000), a quotient is a record           *)
(* [num, den] with den > 0.                                                *)
(***************************************************************************)
EXTENDS Integers, Sequences, FiniteSets, TLC

VARIABLES
    config,     \* the module-level DIMENSIONS, SECTION_HINTS, CITATION_PATTERNS
    pc,         \* per caller of score: where the invocation stands
    input,      \* per caller: the argument text of score
    text,       \* per caller: the local `text` after text.strip()
    signals,    \* per caller: the locals cov, cites, read
    result,     \* per caller: the value score returned
    call,       \* the last direct call of a helper: its name and argument
    ret,        \* the value that call returned
    response    \* per HTTP request: the response of POST /analyze

vars == <<config, pc, input, text, signals, result, call, ret, response>>

scoreVars == <<pc, input, text, signals, result>>
unitVars == <<call, ret>>

(***************************************************************************)
(* Characters and strings.                                                 *)
(***************************************************************************)

\* The characters of a string, as a set of one-character strings.
Chars(s) == {SubSeq(s, i, i) : i \in 1..Len(s)}

\* s[i], or "" outside the string.
CharAt(s, i) == IF i >= 1 /\ i <= Len(s) THEN SubSeq(s, i, i) ELSE ""

UpperAZ == "ABCDEFGHIJKLMNOPQRSTUVWXYZ"
LowerAZ == "abcdefghijklmnopqrstuvwxyz"
UpperAccented == "ÁÀÂÃÉÊÍÓÔÕÚÇ"
LowerAccented == "áàâãéêíóôõúç"
Digits == "0123456789"

\* str.isspace() / the regex class \s, on the characters of the model.
SpaceChars == {" ", "\t", "\n", "\r", "\f"}
IsSpace(c) == c \in SpaceChars

\* The regex class \w under re.UNICODE: letters of any script, digits, "_".
WordChars ==
    Chars(UpperAZ) \cup Chars(LowerAZ) \cup Chars(UpperAccented)
        \cup Chars(LowerAccented) \cup Chars(Digits) \cup {"_"}
IsWordChar(c) == c \in WordChars

\* The regex classes [A-Z], [a-zA-Z] and \d (ASCII letters only).
UpperAZChars == Chars(UpperAZ)
AlphaAZChars == Chars(UpperAZ) \cup Chars(LowerAZ)
DigitChars == Chars(Digits)
IsUpperAZ(c) == c \in UpperAZChars
IsAlphaAZ(c) == c \in AlphaAZChars
IsDigit(c) == c \in DigitChars

\* str.lower() of one character: the lower-case letter at the place the
\* character has among the upper-case ones, or the character itself.
LowerOf ==
    LET up == UpperAZ \o UpperAccented
        lo == LowerAZ \o LowerAccented
    IN  [c \in Chars(up) |->
            LET i == CHOOSE k \in 1..Len(up) : SubSeq(up, k, k) = c
            IN  SubSeq(lo, i, i)]
LowerChar(c) == IF c \in DOMAIN LowerOf THEN LowerOf[c] ELSE c

\* str.lower(): every character lowered, the others kept.
RECURSIVE Lower(_)
Lower(s) ==
    IF Len(s) = 0 THEN ""
    ELSE IF Len(s) = 1 THEN LowerChar(s)
    ELSE LET h == Len(s) \div 2
         IN  Lower(SubSeq(s, 1, h)) \o Lower(SubSeq(s, h + 1, Len(s)))

\* Strip with a slip: only blanks are removed, line breaks and tabs stay.
StripBlanksOnly(s) ==
    LET Inked(i) == SubSeq(s, i, i) # " "
    IN  IF \A i \in 1..Len(s) : ~Inked(i) THEN ""
        ELSE LET first == CHOOSE i \in 1..Len(s) :
                              Inked(i) /\ \A j \in 1..(i - 1) : ~Inked(j)
                 last == CHOOSE i \in 1..Len(s) :
                              Inked(i) /\ \A j \in (i + 1)..Len(s) : ~Inked(j)
             IN  SubSeq(s, first, last)

\* str.strip(): leading and trailing whitespace removed.
Strip(s) ==
    LET Inked(i) == ~IsSpace(SubSeq(s, i, i))
    IN  IF \A i \in 1..Len(s) : ~Inked(i) THEN ""
        ELSE LET first == CHOOSE i \in 1..Len(s) :
                              Inked(i) /\ \A j \in 1..(i - 1) : ~Inked(j)
                 last == CHOOSE i \in 1..Len(s) :
                              Inked(i) /\ \A j \in (i + 1)..Len(s) : ~Inked(j)
             IN  SubSeq(s, first, last)

\* Python's `needle in hay`.
Contains(hay, needle) ==
    \E i \in 1..(Len(hay) - Len(needle) + 1) :
        SubSeq(hay, i, i + Len(needle) - 1) = needle

\* The regex assertion \b before position p (between s[p-1] and s[p]).
WordBoundary(s, p) == IsWordChar(CharAt(s, p - 1)) # IsWordChar(CharAt(s, p))

\* re.search(r"\b(a1|a2|...)\b", s): some alternative occurs as a whole word.
SearchWord(s, alternatives) ==
    \E a \in alternatives :
        \E i \in 1..(Len(s) - Len(a) + 1) :
            /\ SubSeq(s, i, i + Len(a) - 1) = a
            /\ WordBoundary(s, i)
            /\ WordBoundary(s, i + Len(a))

\* The concatenation of a sequence of strings.
RECURSIVE Concat(_)
Concat(ss) == IF ss = <<>> THEN "" ELSE Head(ss) \o Concat(Tail(ss))

\* s repeated n times.
RECURSIVE Repeat(_, _)
Repeat(s, n) ==
    IF n = 0 THEN ""
    ELSE IF n = 1 THEN s
    ELSE Repeat(s, n \div 2) \o Repeat(s, n - n \div 2)

\* The sum of f over the set S.
RECURSIVE SumOver(_, _)
SumOver(f, S) ==
    IF S = {} THEN 0
    ELSE LET x == CHOOSE y \in S : TRUE
         IN  f[x] + SumOver(f, S \ {x})

\* The elements of a set of integers in increasing order.
Sorted(S) ==
    [k \in 1..Cardinality(S) |->
        CHOOSE x \in S : Cardinality({y \in S : y < x}) = k - 1]

\* str(n) for an integer n >= 0.
RECURSIVE IntToStr(_)
IntToStr(n) ==
    IF n < 10 THEN SubSeq(Digits, n + 1, n + 1)
    ELSE IntToStr(n \div 10) \o SubSeq(Digits, (n % 10) + 1, (n % 10) + 1)

\* The integer nearest to num/den (den > 0, num >= 0), ties to the even one.
RoundHalfEven(num, den) ==
    LET q == num \div den
        r == num % den
    IN  IF 2 * r < den THEN q
        ELSE IF 2 * r > den THEN q + 1
        ELSE IF q % 2 = 0 THEN q ELSE q + 1

\* The quotient num/den as a record; 0 is 0/1.  Python's num / den raises
\* ZeroDivisionError when den is 0.
Quot(num, den) ==
    IF den = 0 THEN [error |-> "ZeroDivisionError"] ELSE [num |-> num, den |-> den]
Zero == Quot(0, 1)
Raised(q) == "error" \in DOMAIN q

\* f"{q:.1f}" for a quotient q >= 0: one decimal.  Python formats the double
\* nearest to q, so a q that lies exactly between two decimals may print the
\* other neighbour there; the model rounds the exact quotient.
Fmt1(q) ==
    LET tenths == RoundHalfEven(10 * q.num, q.den)
    IN  IntToStr(tenths \div 10) \o "." \o IntToStr(tenths % 10)

(***************************************************************************)
(* Regular expressions, as sets of positions: a position p stands for "the *)
(* next character to read is s[p]"; each operator maps the positions       *)
(* before a piece of a pattern to the positions a match of it can end at.  *)
(***************************************************************************)

\* The first position from p on whose character is not in the class.
RunEnd(s, p, InClass(_)) ==
    CHOOSE q \in p..(Len(s) + 1) :
        /\ q = Len(s) + 1 \/ ~InClass(SubSeq(s, q, q))
        /\ \A k \in p..(q - 1) : InClass(SubSeq(s, k, k))

\* A literal character c.
Lit(s, P, c) == {p + 1 : p \in {x \in P : CharAt(s, x) = c}}

\* One character of a class.
One(s, P, InClass(_)) == {p + 1 : p \in {x \in P : InClass(CharAt(s, x))}}

\* class+ : one or more characters of a class.
Plus(s, P, InClass(_)) ==
    UNION {(p + 1)..RunEnd(s, p, InClass) : p \in {x \in P : x <= Len(s)}}

\* class* : zero or more characters of a class.
Star(s, P, InClass(_)) == P \cup Plus(s, P, InClass)

\* c? : an optional literal.
Opt(s, P, c) == P \cup Lit(s, P, c)

\* \d{1,3}
Digits13(s, P) ==
    UNION {{q \in (p + 1)..(p + 3) : \A k \in p..(q - 1) : IsDigit(CharAt(s, k))}
           : p \in P}

\* (?:19|20)\d{2}
Year(s, P) ==
    LET century == Lit(s, Lit(s, P, "1"), "9") \cup Lit(s, Lit(s, P, "2"), "0")
    IN  One(s, One(s, century, IsDigit), IsDigit)

\* [A-Z][a-zA-Z]+
AuthorName(s, P) == Plus(s, One(s, P, IsUpperAZ), IsAlphaAZ)

\* (?:,?\s*&?\s*[A-Z][a-zA-Z]+)*
RECURSIVE MoreAuthors(_, _)
MoreAuthors(s, P) ==
    LET step == AuthorName(s, Star(s, Opt(s, Star(s, Opt(s, P, ","), IsSpace), "&"), IsSpace))
    IN  IF step \subseteq P THEN P ELSE MoreAuthors(s, P \cup step)

\* (?:,?\s*\d{1,3}|-\d{1,3})*
RECURSIVE MoreNumbers(_, _)
MoreNumbers(s, P) ==
    LET step == Digits13(s, Star(s, Opt(s, P, ","), IsSpace))
                    \cup Digits13(s, Lit(s, P, "-"))
    IN  IF step \subseteq P THEN P ELSE MoreNumbers(s, P \cup step)

\* CITATION_PATTERNS[0]:
\* \((?:[A-Z][a-zA-Z]+(?:,?\s*&?\s*[A-Z][a-zA-Z]+)*,\s*(?:19|20)\d{2})\)
ParentheticalEnds(s, i) ==
    LET authors == MoreAuthors(s, AuthorName(s, Lit(s, {i}, "(")))
    IN  Lit(s, Year(s, Star(s, Lit(s, authors, ","), IsSpace)), ")")

\* CITATION_PATTERNS[1]: \[(?:\d{1,3})(?:,?\s*\d{1,3}|-\d{1,3})*\]
BracketedEnds(s, i) ==
    Lit(s, MoreNumbers(s, Digits13(s, Lit(s, {i}, "["))), "]")

\* [A-Z][a-zA-Z]+\s*\((?:19|20)\d{2}\)
InlineEnds(s, i) ==
    Lit(s, Year(s, Lit(s, Star(s, AuthorName(s, {i}), IsSpace), "(")), ")")

\* The ends of the matches of the pattern called `name` that start at i; a
\* match starts with the pattern's first character.
PatternEnds(name, s, i) ==
    CASE name = "parenthetical" ->
            IF SubSeq(s, i, i) = "(" THEN ParentheticalEnds(s, i) ELSE {}
      [] name = "bracketed" ->
            IF SubSeq(s, i, i) = "[" THEN BracketedEnds(s, i) ELSE {}
      [] name = "inline" ->
            IF IsUpperAZ(SubSeq(s, i, i)) THEN InlineEnds(s, i) ELSE {}

\* len(pattern.findall(s)).  findall takes the leftmost match, then goes on
\* from its end.  Each of the three patterns ends at its only closing bracket
\* and has its only opening bracket before anything that could start another
\* match of it, so two matches that end at different places never overlap and
\* the matches findall returns are as many as the places a match can end at.
FindallCount(name, s) ==
    Cardinality(UNION {PatternEnds(name, s, i) : i \in 1..Len(s)})

(***************************************************************************)
(* Module-level configuration (scoring.py lines 7-27).                     *)
(***************************************************************************)

DIMENSIONS ==
    << "Relevância e Originalidade",
       "Rigor Metodológico",
       "Qualidade da Escrita",
       "Fundamentação Teórica",
       "Resultados e Discussão" >>

SECTION_HINTS ==
    ("introdução" :> <<"introdução", "contexto", "motivação", "objetivo">>)
    @@ ("metodologia" :> <<"método", "metodologia", "procedimentos", "amostra",
                           "amostragem", "instrumento">>)
    @@ ("resultados" :> <<"resultados", "achados", "achado", "experimentos", "análise">>)
    @@ ("discussão" :> <<"discussão", "implicações", "interpretação", "limitações">>)
    @@ ("conclusões" :> <<"conclusão", "conclusões", "trabalhos futuros", "futuros">>)

\* The two compiled patterns, by name (see PatternEnds).
CITATION_PATTERNS == <<"parenthetical", "bracketed">>

\* The module's globals as the import leaves them.
ModuleConfig ==
    [DIMENSIONS |-> DIMENSIONS,
     SECTION_HINTS |-> SECTION_HINTS,
     CITATION_PATTERNS |-> CITATION_PATTERNS]

(***************************************************************************)
(* The analyzers (scoring.py lines 29-86).  Each takes the globals it      *)
(* reads as an argument.                                                   *)
(***************************************************************************)

\* count_citations(text)
count_citations(patterns, s) ==
    SumOver([k \in 1..Len(patterns) |-> FindallCount(patterns[k], s)],
            1..Len(patterns))
    + FindallCount("inline", s)

\* section_coverage with a slip: every occurrence of a hint is counted, not
\* every hint that occurs.
section_coverage_occurrences(hints, s) ==
    LET t == Lower(s)
    IN  [sec \in DOMAIN hints |->
            Cardinality({<<k, i>> \in (1..Len(hints[sec])) \X (1..Len(t)) :
                i + Len(hints[sec][k]) - 1 <= Len(t)
                /\ SubSeq(t, i, i + Len(hints[sec][k]) - 1) = hints[sec][k]})]

\* section_coverage(text): per section, how many of its hints occur in
\* text.lower().
section_coverage(hints, s) ==
    LET t == Lower(s)
    IN  [sec \in DOMAIN hints |->
            Cardinality({k \in 1..Len(hints[sec]) : Contains(t, hints[sec][k])})]

\* len(s.split()): the maximal runs of non-whitespace.
SplitCount(s) ==
    Cardinality({i \in 1..Len(s) :
        /\ ~IsSpace(SubSeq(s, i, i))
        /\ (i = 1 \/ IsSpace(SubSeq(s, i - 1, i - 1)))})

\* SplitSentences with a slip: the separator is [.!?]\s*, so a '.', '!' or
\* '?' splits the text whether or not whitespace follows it.
SplitAtEveryMark(s) ==
    LET starts == {i \in 1..Len(s) : SubSeq(s, i, i) \in {".", "!", "?"}}
        at == Sorted(starts)
        n == Cardinality(starts)
        from(j) == IF j = 1 THEN 1 ELSE RunEnd(s, at[j - 1] + 1, IsSpace)
        to(j) == IF j = n + 1 THEN Len(s) ELSE at[j] - 1
    IN  [j \in 1..(n + 1) |-> SubSeq(s, from(j), to(j))]

\* re.split(r"[.!?]\s+", s): the pieces of s between the matches of the
\* separator.  A match starts at a '.', '!' or '?' that whitespace follows and
\* takes all of that whitespace, so no two matches overlap.
SplitSentences(s) ==
    LET starts == {i \in 1..(Len(s) - 1) :
                      /\ SubSeq(s, i, i) \in {".", "!", "?"}
                      /\ IsSpace(SubSeq(s, i + 1, i + 1))}
        at == Sorted(starts)
        n == Cardinality(starts)
        from(j) == IF j = 1 THEN 1 ELSE RunEnd(s, at[j - 1] + 1, IsSpace)
        to(j) == IF j = n + 1 THEN Len(s) ELSE at[j] - 1
    IN  [j \in 1..(n + 1) |-> SubSeq(s, from(j), to(j))]

\* AverageOrZero with a slip: the division is not guarded.
AverageUnguarded(total, count) == Quot(total, count)

\* (total / count) if count > 0 else 0  (lines 62 and 63)
AverageOrZero(total, count) == IF count > 0 THEN Quot(total, count) ELSE Zero

\* readability_signals(text)
readability_signals(s) ==
    LET wordChars == {i \in 1..Len(s) : IsWordChar(SubSeq(s, i, i))}
        \* re.findall(r"\w+", text): the maximal runs of word characters
        wordStarts == {i \in wordChars : i = 1 \/ (i - 1) \notin wordChars}
        sentences == SplitSentences(Strip(s))
        word_count == Cardinality(wordStarts)
        sentence_count == Len(sentences)
        sentence_words ==
            SumOver([j \in 1..sentence_count |-> SplitCount(sentences[j])],
                    1..sentence_count)
        avg_word_len == AverageOrZero(Cardinality(wordChars), word_count)
        avg_sentence_words == AverageOrZero(sentence_words, sentence_count)
        \* 0.39 * avg_sentence_words + 11.8 * avg_word_len
        flesch_kincaid ==
            IF word_count > 0 /\ sentence_count > 0
            THEN Quot(39 * avg_sentence_words.num * avg_word_len.den
                        + 1180 * avg_word_len.num * avg_sentence_words.den,
                      100 * avg_sentence_words.den * avg_word_len.den)
            ELSE Zero
    IN  [word_count |-> word_count,
         sentence_count |-> sentence_count,
         avg_word_len |-> avg_word_len,
         avg_sentence_words |-> avg_sentence_words,
         flesch_kincaid |-> flesch_kincaid]

\* q < n, q > n for a quotient q and an integer n.
QLess(q, n) == q.num < n * q.den
QGreater(q, n) == q.num > n * q.den

\* clamp with a slip: the value is passed through.
clamp_nothing(x) == x

\* clamp(x, lo=1.0, hi=10.0), in hundredths.
ClampLo == 100
ClampHi == 1000

clamp(x) ==
    LET capped == IF x < ClampHi THEN x ELSE ClampHi
    IN  IF capped > ClampLo THEN capped ELSE ClampLo

\* "; ".join(details)
RECURSIVE Join(_, _)
Join(sep, details) ==
    IF details = <<>> THEN ""
    ELSE IF Len(details) = 1 THEN details[1]
    ELSE details[1] \o sep \o Join(sep, Tail(details))

\* explain with a slip: the fragments are joined with ", ".
explain_comma(label, details) ==
    IF details # <<>>
    THEN label \o ": " \o Join(", ", details) \o "."
    ELSE label \o ": sem evidências claras."

\* explain(label, details)
explain(label, details) ==
    IF details # <<>>
    THEN label \o ": " \o Join("; ", details) \o "."
    ELSE label \o ": sem evidências claras."

\* round(x, 1) of a value held in hundredths: the nearest tenth, ties to even.
Round1(x) == 10 * RoundHalfEven(x, 10)


(***************************************************************************)
(* score (scoring.py lines 88-206), piece by piece.  Scores are in         *)
(* hundredths.                                                             *)
(***************************************************************************)

\* Python's None, and the value of a local that is not bound.
None == [none |-> TRUE]

\* The return value of the blank-text branch (lines 91-94): the keys are the
\* labels of DIMENSIONS.
EmptyResult(dimensions) ==
    LET labels == {dimensions[k] : k \in 1..Len(dimensions)}
    IN  [scores |-> [d \in labels |-> 100],
         explainability |-> [d \in labels |-> "Texto vazio, atribuído mínimo 1."]]

\* Lines 105-106: how many of the novelty keywords occur in text.lower().
\* Here and below t is text.lower().
NOVELTY_KEYWORDS ==
    <<"propomos", "apresentamos", "neste trabalho", "contribuição", "novel",
      "novo", "inédito">>
novelty_signals(t) ==
    Cardinality({k \in 1..Len(NOVELTY_KEYWORDS) : Contains(t, NOVELTY_KEYWORDS[k])})

\* "lacuna" in text.lower() or "gap" in text.lower()
mentions_gap(t) == Contains(t, "lacuna") \/ Contains(t, "gap")

\* rel_score with a slip: each novelty keyword takes 2 away.
rel_score_minus(t) ==
    clamp(100 * (5 - 2 * novelty_signals(t)) + (IF mentions_gap(t) THEN 100 ELSE 0))

\* Lines 107-109.
rel_score(t) ==
    clamp(100 * (5 + 2 * novelty_signals(t)) + (IF mentions_gap(t) THEN 100 ELSE 0))

\* Lines 110-115.
rel_details(t) ==
    << "sinais de novidade=" \o IntToStr(novelty_signals(t)),
       IF mentions_gap(t) THEN "menciona lacuna" ELSE "sem menção explícita a lacuna" >>

\* The three searches of lines 120-125, on text.lower().
mentions_sample(t) ==
    SearchWord(t, {"amostra", "amostragem", "dataset", "base de dados"})
mentions_protocol(t) ==
    SearchWord(t, {"reprodutibil", "protocolo", "pré-registro", "pré registro"})
mentions_data_type(t) ==
    SearchWord(t, {"quantitativ", "qualitativ"})

\* cov.get(sec, 0)
CovGet(cov, sec) == IF sec \in DOMAIN cov THEN cov[sec] ELSE 0

\* Lines 118-127.
rigor_score(t, cov) ==
    clamp(100 * (4 + 2 * CovGet(cov, "metodologia"))
          + (IF mentions_sample(t) THEN 200 ELSE 0)
          + (IF mentions_protocol(t) THEN 100 ELSE 0)
          + (IF mentions_data_type(t) THEN 150 ELSE 0))

\* Lines 128-135.
rigor_details(t, cov) ==
    << "sinais de metodologia=" \o IntToStr(CovGet(cov, "metodologia")),
       IF mentions_sample(t) THEN "menciona amostra/dataset" ELSE "sem amostra/dataset",
       IF mentions_protocol(t) THEN "menciona reprodutibilidade/protocolo"
                               ELSE "sem menção a reprodutibilidade",
       IF mentions_data_type(t) THEN "menciona abordagem quantitativa/qualitativa"
                                ELSE "sem menção a tipo de dado" >>

\* qc_score with a slip: a short text costs 15 instead of 1.5.
qc_score_harsh(read) ==
    clamp(700
          - (IF QLess(read.flesch_kincaid, 20) \/ QGreater(read.flesch_kincaid, 70)
             THEN 100 ELSE 0)
          - (IF read.word_count < 150 THEN 1500 ELSE 0)
          - (IF QGreater(read.avg_sentence_words, 35) THEN 150 ELSE 0))

\* Lines 139-147.
qc_score(read) ==
    clamp(700
          - (IF QLess(read.flesch_kincaid, 20) \/ QGreater(read.flesch_kincaid, 70)
             THEN 100 ELSE 0)
          - (IF read.word_count < 150 THEN 150 ELSE 0)
          - (IF QGreater(read.avg_sentence_words, 35) THEN 150 ELSE 0))

\* Lines 148-154.
qc_details(read) ==
    << "média palavras por sentença=" \o Fmt1(read.avg_sentence_words),
       "tamanho do texto=" \o IntToStr(read.word_count) \o " palavras",
       "Índice Flesch-Kincaid (simplificado)=" \o Fmt1(read.flesch_kincaid) >>

mentions_literature(t) == SearchWord(t, {"literatura", "referênci"})

\* Lines 158-164.
ft_score(t, cov, cites) ==
    clamp(300 + (IF cites < 10 THEN cites ELSE 10) * 60
          + (IF CovGet(cov, "introdução") > 0 THEN 100 ELSE 0)
          + (IF mentions_literature(t) THEN 100 ELSE 0))

\* Lines 165-171.
ft_details(t, cov, cites) ==
    << "citações detectadas=" \o IntToStr(cites),
       IF CovGet(cov, "introdução") > 0 THEN "há sinais de introdução"
                                        ELSE "sem sinais de introdução",
       IF mentions_literature(t) THEN "menciona literatura/referências"
                                 ELSE "sem menção à literatura" >>

mentions_limitations(t) == Contains(t, "limitações") \/ Contains(t, "limitação")

\* Lines 174-180.
rd_score(t, cov) ==
    clamp(300 + 150 * CovGet(cov, "resultados") + 150 * CovGet(cov, "discussão")
          + (IF mentions_limitations(t) THEN 150 ELSE 0)
          + (IF CovGet(cov, "conclusões") > 0 THEN 100 ELSE 0))

\* Lines 181-188.
rd_details(t, cov) ==
    << "sinais de resultados=" \o IntToStr(CovGet(cov, "resultados")),
       "sinais de discussão=" \o IntToStr(CovGet(cov, "discussão")),
       IF mentions_limitations(t) THEN "menciona limitações" ELSE "sem menção a limitações",
       IF CovGet(cov, "conclusões") > 0 THEN "menciona conclusões/trabalhos futuros"
                                        ELSE "sem menção a conclusões" >>

\* Lines 100-206: the return value of the normal branch, for the stripped
\* text s and the signals sig computed from it.
ScoredResult(s, sig) ==
    LET t == Lower(s)
        cov == sig.section_coverage
    IN  [scores |->
            ("Relevância e Originalidade" :> Round1(rel_score(t)))
            @@ ("Rigor Metodológico" :> Round1(rigor_score(t, cov)))
            @@ ("Qualidade da Escrita" :> Round1(qc_score(sig.readability)))
            @@ ("Fundamentação Teórica" :> Round1(ft_score(t, cov, sig.citations)))
            @@ ("Resultados e Discussão" :> Round1(rd_score(t, cov))),
         explainability |->
            ("Relevância e Originalidade" :> explain("Base", rel_details(t)))
            @@ ("Rigor Metodológico" :> explain("Base", rigor_details(t, cov)))
            @@ ("Qualidade da Escrita" :> explain("Base", qc_details(sig.readability)))
            @@ ("Fundamentação Teórica" :>
                    explain("Base", ft_details(t, cov, sig.citations)))
            @@ ("Resultados e Discussão" :> explain("Base", rd_details(t, cov))),
         signals |-> sig]

(***************************************************************************)
(* One invocation of score by caller c.                                    *)
(***************************************************************************)

\* score(t) is entered.
Call(c, t) ==
    /\ pc[c] = "idle"
    /\ call = None
    /\ pc' = [pc EXCEPT ![c] = "strip"]
    /\ input' = [input EXCEPT ![c] = t]
    /\ UNCHANGED <<config, text, signals, result, unitVars, response>>

\* Lines 89-94: strip, and the early return on a blank text.
StripText(c) ==
    /\ pc[c] = "strip"
    /\ text' = [text EXCEPT ![c] = Strip(input[c])]
    /\ IF text'[c] = ""
       THEN /\ result' = [result EXCEPT ![c] = EmptyResult(config.DIMENSIONS)]
            /\ pc' = [pc EXCEPT ![c] = "done"]
       ELSE /\ pc' = [pc EXCEPT ![c] = "signals"]
            /\ UNCHANGED result
    /\ UNCHANGED <<config, input, signals, unitVars, response>>

\* ComputeSignals with a slip: each section's list of hints is consumed (its
\* first hint popped) while the coverage is computed.
ComputeSignalsConsuming(c) ==
    /\ pc[c] = "signals"
    /\ signals' = [signals EXCEPT ![c] =
            [section_coverage |-> section_coverage(config.SECTION_HINTS, text[c]),
             citations |-> count_citations(config.CITATION_PATTERNS, text[c]),
             readability |-> readability_signals(text[c])]]
    /\ config' = [config EXCEPT !.SECTION_HINTS =
            [sec \in DOMAIN @ |-> IF @[sec] = <<>> THEN <<>> ELSE Tail(@[sec])]]
    /\ pc' = [pc EXCEPT ![c] = "scoring"]
    /\ UNCHANGED <<input, text, result, unitVars, response>>

\* Lines 96-98: cov, cites, read.  A division by zero in readability_signals
\* ends the invocation with the exception.
ComputeSignals(c) ==
    LET read == readability_signals(text[c])
    IN  /\ pc[c] = "signals"
        /\ IF Raised(read.avg_word_len) \/ Raised(read.avg_sentence_words)
           THEN /\ pc' = [pc EXCEPT ![c] = "raised"]
                /\ UNCHANGED signals
           ELSE /\ signals' = [signals EXCEPT ![c] =
                    [section_coverage |-> section_coverage(config.SECTION_HINTS, text[c]),
                     citations |-> count_citations(config.CITATION_PATTERNS, text[c]),
                     readability |-> read]]
                /\ pc' = [pc EXCEPT ![c] = "scoring"]
        /\ UNCHANGED <<config, input, text, result, unitVars, response>>

\* Lines 100-206: the five scorers, the explanations and the return.
ScoreDimensions(c) ==
    /\ pc[c] = "scoring"
    /\ result' = [result EXCEPT ![c] = ScoredResult(text[c], signals[c])]
    /\ pc' = [pc EXCEPT ![c] = "done"]
    /\ UNCHANGED <<config, input, text, signals, unitVars, response>>

\* The caller drops the result; the locals of the invocation are gone.
Release(c) ==
    /\ pc[c] = "done"
    /\ pc' = [pc EXCEPT ![c] = "idle"]
    /\ input' = [input EXCEPT ![c] = None]
    /\ text' = [text EXCEPT ![c] = None]
    /\ signals' = [signals EXCEPT ![c] = None]
    /\ result' = [result EXCEPT ![c] = None]
    /\ UNCHANGED <<config, unitVars, response>>

(***************************************************************************)
(* Direct calls of the module's helpers, by a client that calls one        *)
(* function at a time.                                                     *)
(***************************************************************************)

\* No call is under way.
ClientFree == call = None /\ \A c \in DOMAIN pc : pc[c] = "idle"

\* section_coverage(t)
CallSectionCoverage(t) ==
    /\ ClientFree
    /\ call' = [fn |-> "section_coverage", text |-> t]
    /\ ret' = section_coverage(config.SECTION_HINTS, t)
    /\ UNCHANGED <<config, scoreVars, response>>

\* readability_signals(t)
CallReadability(t) ==
    /\ ClientFree
    /\ call' = [fn |-> "readability_signals", text |-> t]
    /\ ret' = readability_signals(t)
    /\ UNCHANGED <<config, scoreVars, response>>

\* explain(label, details)
CallExplain(label, details) ==
    /\ ClientFree
    /\ call' = [fn |-> "explain", label |-> label, details |-> details]
    /\ ret' = explain(label, details)
    /\ UNCHANGED <<config, scoreVars, response>>

\* The client drops the value the helper returned.
ReleaseHelper ==
    /\ call # None
    /\ call' = None
    /\ ret' = None
    /\ UNCHANGED <<config, scoreVars, response>>

(***************************************************************************)
(* POST /analyze (main.py lines 25-33).  score_with_llm is not part of the *)
(* sources at hand: what a call of it can do is taken from its contract,   *)
(* a result with scores, explainability and recommendations or a result    *)
(* with an error message, and, for the handler's except clause, an         *)
(* exception.                                                              *)
(***************************************************************************)

score_with_llm(t) ==
    { [kind |-> "return",
       value |-> [scores |-> [geral |-> 72],
                  explainability |-> [geral |-> "Texto claro."],
                  recommendations |-> <<"Detalhar a amostra.">>]],
      [kind |-> "return", value |-> [error |-> "Chave da API não configurada."]],
      [kind |-> "return", value |-> [error |-> "Erro HTTP 429 do serviço."]],
      [kind |-> "raise", message |-> "falha inesperada"] }

\* JSONResponse(content, status_code=200)
StatusOK == 200
StatusError == 500

JSONResponse(content, status_code) ==
    [media_type |-> "application/json", status_code |-> status_code, body |-> content]

\* AnalyzeResponse with a slip: a result that reports an error is sent with
\* the default status.
AnalyzeResponseAlwaysOK(outcome) ==
    IF outcome.kind = "raise"
    THEN JSONResponse([error |-> "Erro interno na análise: " \o outcome.message],
                      StatusError)
    ELSE JSONResponse(outcome.value, StatusOK)

\* The handler, on the outcome of its call of score_with_llm.
AnalyzeResponse(outcome) ==
    IF outcome.kind = "raise"
    THEN JSONResponse([error |-> "Erro interno na análise: " \o outcome.message],
                      StatusError)
    ELSE IF "error" \in DOMAIN outcome.value
    THEN JSONResponse(outcome.value, StatusError)
    ELSE JSONResponse(outcome.value, StatusOK)

\* payload.text or ""
TextOrEmpty(t) == IF t = "" THEN "" ELSE t

\* Request r is handled: the handler runs to its return without awaiting.
analyze(r, payload) ==
    /\ response[r] = None
    /\ \E outcome \in score_with_llm(TextOrEmpty(payload.text)) :
          response' = [response EXCEPT ![r] =
              [payload |-> payload, outcome |-> outcome,
               sent |-> AnalyzeResponse(outcome)]]
    /\ UNCHANGED <<config, scoreVars, unitVars>>

(***************************************************************************)
(* The texts score is called on: every way to put up to MaxPieces phrases  *)
(* of a manuscript one after the other, and two long manuscripts.          *)
(***************************************************************************)

MaxPieces == 3
MaxUnitPieces == 3
MaxConcPieces == 2
MaxDetails == 4
MaxRequests == 3

\* All concatenations of at most n strings of the set `pieces`.
TextsOver(pieces, n) ==
    {Concat(ss) : ss \in UNION {[1..k -> pieces] : k \in 0..n}}

Phrases ==
    { " \n",
      "Neste trabalho propomos um novo método inédito. ",
      "No contexto há uma lacuna na literatura (Silva, 2020) [1] [2, 3] [4-6] Souza (2019). ",
      "A Metodologia usa amostragem e amostra do dataset com protocolo quantitativ. ",
      "Os resultados e achados da análise: a discussão traz limitações! Conclusões?" }

\* 150 words in 30 short sentences; 36 words in one sentence; no word at all.
LongTexts ==
    { Repeat("Um texto curto e claro. ", 30), Repeat("palavra ", 36), "..." }

Texts == TextsOver(Phrases, MaxPieces) \cup LongTexts

\* The texts the helpers are called on directly.
UnitPieces == {"metodologia", "amostra", "gem", "Método", " ", ". ", "a.b", "?"}
UnitTexts ==
    TextsOver(UnitPieces, MaxUnitPieces) \cup {Repeat("palavra ", 149) \o "palavra"}

\* The fragments explain is called on directly.
Fragments == {"sinais=2", "menciona lacuna", "sem amostra"}
DetailLists == UNION {[1..k -> Fragments] : k \in 0..MaxDetails}

\* The texts of the concurrent callers.
ConcPhrases == {"Propomos algo novo. ", "Resultado inédito. ", "Um gap. "}
ConcTexts == TextsOver(ConcPhrases, MaxConcPieces)

Requests == 1..MaxRequests
Payloads == {[text |-> ""], [text |-> "Um texto."]}

InitWith(callers) ==
    /\ config = ModuleConfig
    /\ pc = [c \in callers |-> "idle"]
    /\ input = [c \in callers |-> None]
    /\ text = [c \in callers |-> None]
    /\ signals = [c \in callers |-> None]
    /\ result = [c \in callers |-> None]
    /\ call = None
    /\ ret = None
    /\ response = [r \in Requests |-> None]

\* One client that calls score, or a helper, one call at a time.
Init == InitWith({1})

Next ==
    \/ \E c \in DOMAIN pc, t \in Texts : Call(c, t)
    \/ \E c \in DOMAIN pc : StripText(c)
    \/ \E c \in DOMAIN pc : ComputeSignals(c)
    \/ \E c \in DOMAIN pc : ScoreDimensions(c)
    \/ \E c \in DOMAIN pc : Release(c)
    \/ \E t \in UnitTexts : CallSectionCoverage(t)
    \/ \E t \in UnitTexts : CallReadability(t)
    \/ \E d \in DetailLists : CallExplain("Base", d)
    \/ ReleaseHelper

Spec == Init /\ [][Next]_vars

\* Two callers of score whose invocations interleave.
InitConc == InitWith({1, 2})

NextConc ==
    \/ \E c \in DOMAIN pc, t \in ConcTexts : Call(c, t)
    \/ \E c \in DOMAIN pc : StripText(c)
    \/ \E c \in DOMAIN pc : ComputeSignals(c)
    \/ \E c \in DOMAIN pc : ScoreDimensions(c)
    \/ \E c \in DOMAIN pc : Release(c)

SpecConc == InitConc /\ [][NextConc]_vars

\* The requests of POST /analyze.
InitHttp == InitWith({1})

NextHttp == \E r \in Requests, p \in Payloads : analyze(r, p)

SpecHttp == InitHttp /\ [][NextHttp]_vars

(***************************************************************************)
(* Properties.                                                             *)
(***************************************************************************)

\* The labels of DIMENSIONS, and the fixed message of the blank-text branch.
Labels == {DIMENSIONS[k] : k \in 1..Len(DIMENSIONS)}
EmptyTextMessage == "Texto vazio, atribuído mínimo 1."

\* The text is empty or holds whitespace only.
IsBlankText(s) == \A i \in 1..Len(s) : IsSpace(SubSeq(s, i, i))

\* Caller c holds the value an invocation of score returned.
Returned(c) == pc[c] = "done"

\* C1: whatever the input text, blank or not, each of the five scores score
\* returns lies in [1.0, 10.0].
C1_ScoresInRange ==
    \A c \in DOMAIN pc :
        Returned(c) =>
            \A d \in Labels :
                /\ d \in DOMAIN result[c].scores
                /\ result[c].scores[d] >= 100
                /\ result[c].scores[d] <= 1000

\* C1's case: a text whose methodology evidence alone is worth more than 10
\* (four hints: 4 + 2*4 = 12) is scored 10.0.
C1_Witness ==
    \E c \in DOMAIN pc :
        /\ Returned(c)
        /\ ~IsBlankText(input[c])
        /\ result[c].signals.section_coverage["metodologia"] >= 4
        /\ result[c].scores["Rigor Metodológico"] = 1000

\* C2: for the empty string and for every whitespace-only string, score
\* returns 1 for each of the five dimensions, the fixed empty-text message as
\* every explanation, and no signals; no signal was computed on the way.
C2_BlankText ==
    \A c \in DOMAIN pc :
        (Returned(c) /\ IsBlankText(input[c])) =>
            /\ DOMAIN result[c] = {"scores", "explainability"}
            /\ result[c].scores = [d \in Labels |-> 100]
            /\ result[c].explainability = [d \in Labels |-> EmptyTextMessage]
            /\ signals[c] = None

\* C2's case: score has returned on a text of whitespace, not the empty one.
C2_Witness ==
    \E c \in DOMAIN pc :
        Returned(c) /\ IsBlankText(input[c]) /\ Len(input[c]) > 0

\* C4: score never ends in an error, and what it returns is fully populated:
\* the keys of scores and of explainability are exactly the five labels of
\* DIMENSIONS in both branches, and signals is there exactly when the trimmed
\* text is not empty.
C4_TotalAndPopulated ==
    \A c \in DOMAIN pc :
        /\ pc[c] # "raised"
        /\ Returned(c) =>
            (/\ DOMAIN result[c].scores = Labels
             /\ DOMAIN result[c].explainability = Labels
             /\ (("signals" \in DOMAIN result[c]) <=> ~IsBlankText(input[c])))

\* C4's case: score has returned, with signals, on a text without a single
\* word (the average word length has nothing to divide by).
C4_Witness ==
    \E c \in DOMAIN pc :
        /\ Returned(c)
        /\ ~IsBlankText(input[c])
        /\ "signals" \in DOMAIN result[c]
        /\ result[c].signals.readability.word_count = 0

\* C10: for a text that is not blank the scores are at least 5, 4, 3, 3, 3
\* (relevance, rigor, writing, grounding, results), so a score of 1 is in a
\* result exactly when the trimmed text is empty.
C10_LowerBounds ==
    \A c \in DOMAIN pc :
        Returned(c) =>
            /\ (~IsBlankText(input[c]) =>
                (/\ result[c].scores["Relevância e Originalidade"] >= 500
                 /\ result[c].scores["Rigor Metodológico"] >= 400
                 /\ result[c].scores["Qualidade da Escrita"] >= 300
                 /\ result[c].scores["Fundamentação Teórica"] >= 300
                 /\ result[c].scores["Resultados e Discussão"] >= 300))
            /\ ((\E d \in Labels : result[c].scores[d] = 100) <=> IsBlankText(input[c]))

\* C10's case: a text that earns all three writing penalties (36 words in one
\* sentence) is scored 3.0 for writing quality, the least a score can be.
C10_Witness ==
    \E c \in DOMAIN pc :
        /\ Returned(c)
        /\ ~IsBlankText(input[c])
        /\ result[c].scores["Qualidade da Escrita"] = 300
        /\ result[c].signals.readability.word_count >= 36


\* C6 as stated: a text that contains both "metodologia" and "amostra" has a
\* methodology coverage of exactly 2, and a text that contains neither has 0.
C6_AsStated ==
    (call # None /\ call.fn = "section_coverage") =>
        /\ ((Contains(call.text, "metodologia") /\ Contains(call.text, "amostra"))
                => ret["metodologia"] = 2)
        /\ ((~Contains(call.text, "metodologia") /\ ~Contains(call.text, "amostra"))
                => ret["metodologia"] = 0)

\* The methodology hints other than "metodologia" and "amostra".
C6_OtherHints == {"método", "procedimentos", "amostragem", "instrumento"}

\* C6, amended: a text that contains both "metodologia" and "amostra" has a
\* methodology coverage of at least 2, and of exactly 2 when its lower-cased
\* form contains none of the other four methodology hints; a text whose
\* lower-cased form contains none of the six hints has 0.
C6_DistinctHints ==
    (call # None /\ call.fn = "section_coverage") =>
        LET t == Lower(call.text)
            others == \E h \in C6_OtherHints : Contains(t, h)
        IN  /\ ((Contains(call.text, "metodologia") /\ Contains(call.text, "amostra"))
                    => (/\ ret["metodologia"] >= 2
                        /\ (~others => ret["metodologia"] = 2)))
            /\ ((~Contains(t, "metodologia") /\ ~Contains(t, "amostra") /\ ~others)
                    => ret["metodologia"] = 0)

\* C6's case: section_coverage was called on a text that repeats one of the
\* two hints and holds no other, and counted 2.
C6_Witness ==
    /\ call # None
    /\ call.fn = "section_coverage"
    /\ Contains(call.text, "metodologia")
    /\ Contains(call.text, "amostra")
    /\ Len(call.text) > Len("metodologia") + Len("amostra") + 1
    /\ ret["metodologia"] = 2

\* The whitespace-separated words of a text: the places where a character
\* that is not whitespace follows whitespace or starts the text.
C7_Words(s) ==
    Cardinality({i \in 1..Len(s) :
        /\ ~IsSpace(SubSeq(s, i, i))
        /\ (i = 1 \/ IsSpace(SubSeq(s, i - 1, i - 1)))})

\* No '.', '!' or '?' of the text is followed by whitespace.
C7_OneSentence(s) ==
    \A i \in 1..(Len(s) - 1) :
        SubSeq(s, i, i) \in {".", "!", "?"} => ~IsSpace(SubSeq(s, i + 1, i + 1))

\* C7: for a text of n >= 1 whitespace-separated words in which no '.', '!'
\* or '?' is followed by whitespace, readability_signals returns
\* sentence_count = 1 and avg_sentence_words = n.
C7_SingleSentence ==
    (call # None /\ call.fn = "readability_signals") =>
        ((C7_OneSentence(call.text) /\ C7_Words(call.text) >= 1) =>
            /\ ret.sentence_count = 1
            /\ ret.avg_sentence_words.num = C7_Words(call.text) * ret.avg_sentence_words.den)

\* C7's case: the 150 words of one sentence.
C7_Witness ==
    /\ call # None
    /\ call.fn = "readability_signals"
    /\ C7_OneSentence(call.text)
    /\ ret.sentence_count = 1
    /\ ret.avg_sentence_words = [num |-> 150, den |-> 1]

\* The fragments, joined with "; " from the last one backwards.
RECURSIVE C9_Joined(_)
C9_Joined(details) ==
    IF Len(details) = 1 THEN details[1]
    ELSE C9_Joined(SubSeq(details, 1, Len(details) - 1)) \o "; " \o details[Len(details)]

\* The fragments of an explanation: what lies between its label and its
\* period, cut at every "; ".
C9_Fragments(e, label) ==
    LET body == SubSeq(e, Len(label) + 3, Len(e) - 1)
        cuts == {i \in 1..(Len(body) - 1) : SubSeq(body, i, i + 1) = "; "}
        at == Sorted(cuts)
        n == Cardinality(cuts)
    IN  [j \in 1..(n + 1) |->
            SubSeq(body,
                   IF j = 1 THEN 1 ELSE at[j - 1] + 2,
                   IF j = n + 1 THEN Len(body) ELSE at[j] - 1)]

\* What each fragment of a dimension's explanation starts with, rule by rule
\* in the order the scorer evaluates them.
C9_RuleOrder ==
    ("Relevância e Originalidade" :>
        << {"sinais de novidade="}, {"menciona lacuna", "sem menção explícita a lacuna"} >>)
    @@ ("Rigor Metodológico" :>
        << {"sinais de metodologia="}, {"menciona amostra", "sem amostra"},
           {"menciona reprodutibilidade", "sem menção a reprodutibilidade"},
           {"menciona abordagem", "sem menção a tipo de dado"} >>)
    @@ ("Qualidade da Escrita" :>
        << {"média palavras por sentença="}, {"tamanho do texto="},
           {"Índice Flesch-Kincaid (simplificado)="} >>)
    @@ ("Fundamentação Teórica" :>
        << {"citações detectadas="}, {"há sinais de introdução", "sem sinais de introdução"},
           {"menciona literatura", "sem menção à literatura"} >>)
    @@ ("Resultados e Discussão" :>
        << {"sinais de resultados="}, {"sinais de discussão="},
           {"menciona limitações", "sem menção a limitações"},
           {"menciona conclusões", "sem menção a conclusões"} >>)

StartsWith(s, prefix) == Len(s) >= Len(prefix) /\ SubSeq(s, 1, Len(prefix)) = prefix

C8_AlwaysJson ==
    \A r \in Requests :
        response[r] # None =>
            LET o == response[r].outcome
                sent == response[r].sent
            IN  /\ sent.media_type = "application/json"
                /\ ((o.kind = "return" /\ "error" \notin DOMAIN o.value)
                        => (sent.status_code = 200 /\ sent.body = o.value))
                /\ ((o.kind = "return" /\ "error" \in DOMAIN o.value)
                        => (sent.status_code = 500 /\ sent.body = o.value))
                /\ (o.kind = "raise"
                        => (/\ sent.status_code = 500
                            /\ DOMAIN sent.body = {"error"}
                            /\ Len(sent.body.error) > 0))

\* C8's case: one request answered 200, one whose scorer reported an error
\* and one whose scorer raised, both answered 500.
C8_Witness ==
    \E r1, r2, r3 \in Requests :
        /\ response[r1] # None /\ response[r2] # None /\ response[r3] # None
        /\ response[r1].sent.status_code = 200
        /\ response[r2].outcome.kind = "return" /\ response[r2].sent.status_code = 500
        /\ response[r3].outcome.kind = "raise" /\ response[r3].sent.status_code = 500

\* The novelty keywords that occur in a text, whatever the case of its
\* letters, and whether the text names a research gap.
C5_NoveltyIn(s) ==
    {k \in 1..Len(NOVELTY_KEYWORDS) : Contains(Lower(s), NOVELTY_KEYWORDS[k])}
C5_Gap(s) == Contains(Lower(s), "lacuna") \/ Contains(Lower(s), "gap")

\* C5: of two texts that are not blank, with the same research-gap flag,
\* the one that holds all the novelty keywords of the other, and possibly
\* more, scores at least as much for relevance and originality; and that
\* score never exceeds 10.
C5_Monotone ==
    \A c1, c2 \in DOMAIN pc :
        (/\ Returned(c1) /\ Returned(c2)
         /\ ~IsBlankText(input[c1]) /\ ~IsBlankText(input[c2])
         /\ C5_NoveltyIn(input[c1]) \subseteq C5_NoveltyIn(input[c2])
         /\ C5_Gap(input[c1]) = C5_Gap(input[c2]))
        => /\ result[c1].scores["Relevância e Originalidade"]
                <= result[c2].scores["Relevância e Originalidade"]
           /\ result[c2].scores["Relevância e Originalidade"] <= 1000

\* C5's case: two texts with the same gap flag, the second with more novelty
\* keywords than the first and held at 10 by the clamp.
C5_Witness ==
    \E c1, c2 \in DOMAIN pc :
        /\ Returned(c1) /\ Returned(c2)
        /\ ~IsBlankText(input[c1]) /\ ~IsBlankText(input[c2])
        /\ C5_NoveltyIn(input[c1]) \subseteq C5_NoveltyIn(input[c2])
        /\ C5_NoveltyIn(input[c1]) # C5_NoveltyIn(input[c2])
        /\ C5_NoveltyIn(input[c1]) # {}
        /\ C5_Gap(input[c1]) = C5_Gap(input[c2])
        /\ result[c1].scores["Relevância e Originalidade"] < 1000
        /\ result[c2].scores["Relevância e Originalidade"] = 1000

\* Two invocations that have returned on the same text hold the same result.
C3_SameResult ==
    \A c1, c2 \in DOMAIN pc :
        (Returned(c1) /\ Returned(c2) /\ input[c1] = input[c2])
            => result[c1] = result[c2]

\* C3: score is deterministic and independent of history: whatever was
\* invoked before or in between, on whatever texts, two invocations on the
\* same text return the same result; and no step of an invocation changes
\* DIMENSIONS, SECTION_HINTS or CITATION_PATTERNS.
C3_Deterministic == [](C3_SameResult) /\ [][config' = config]_vars

\* C3's case: two invocations have returned on the same text that is not
\* blank.
C3_Witness ==
    /\ Returned(1) /\ Returned(2)
    /\ input[1] = input[2]
    /\ ~IsBlankText(input[1])
    /\ "signals" \in DOMAIN result[2]


====
